---- MODULE Spec2Model ----
(***************************************************************************)
(* A model of mhcnames/helpers.py: the string helpers normalize_string and *)
(* expand_strings, the dictionary transformer                              *)
(* apply_string_expansion_to_dict_keys, and the class NormalizingDictionary.*)
(*                                                                         *)
(* A Python str is a sequence of characters (one-character strings; the    *)
(* Kelvin sign U+212A is written "U+212A").  A Python dict is a sequence   *)
(* of [k, v] entries in insertion order, the order Python 3 iterates in.   *)
(***************************************************************************)
EXTENDS Integers, Sequences, FiniteSets, TLC

\* Longest input string handed to normalize_string / expand_strings.
MaxLen == 3
\* Largest input mapping handed to apply_string_expansion_to_dict_keys.
MaxDictSize == 2
\* Number of method calls made on one NormalizingDictionary.
MaxOps == 4

VARIABLES
    self,      \* the NormalizingDictionary: a record of its attributes
    ret,       \* outcome of the last call: [status, value]
    lastOp,    \* the last call made: [op, k, v]
    nops,      \* number of calls made so far
    allocated, \* number of objects default_value_fn has created (its calls)
    written,   \* history: the (key, value) pairs given to __setitem__, oldest first
    input,     \* argument of the pure function under check
    out1,      \* its result
    out2,      \* the result of applying it again to out1
    pc         \* position of the pure-function driver

vars == <<self, ret, lastOp, nops, allocated, written, input, out1, out2, pc>>
cvars == <<self, ret, lastOp, nops, allocated, written>>
fvars == <<input, out1, out2, pc>>

----------------------------------------------------------------------------
(* Python str                                                              *)

\* The characters the inputs are drawn from: a cased letter, the default
\* removable characters, a space, a tab, and the Kelvin sign, whose lowercase
\* is "k" while the uppercase of "k" is "K".
Alphabet == {"k", "K", "-", "_", "'", " ", "\t", "U+212A"}

Strings == UNION {[1..n -> Alphabet] : n \in 0..MaxLen}

\* str.upper() and str.lower() on one character (Unicode simple case mapping).
UpperChar(c) == IF c = "k" THEN "K" ELSE c

LowerChar(c) == IF c \in {"K", "U+212A"} THEN "k" ELSE c

\* In this alphabet every character maps to one character.
RECURSIVE Upper(_)
Upper(s) ==
    IF s = <<>> THEN <<>> ELSE <<UpperChar(Head(s))>> \o Upper(Tail(s))

RECURSIVE Lower(_)
Lower(s) ==
    IF s = <<>> THEN <<>> ELSE <<LowerChar(Head(s))>> \o Lower(Tail(s))

\* `c in s` for a one-character c.
Contains(s, c) == \E i \in 1..Len(s) : s[i] = c

\* s.replace(c, "") for a one-character c.
Replace(s, c) == SelectSeq(s, LAMBDA x : x # c)

\* str.strip(): whitespace is dropped from both ends.
IsSpace(c) == c \in {" ", "\t"}

RECURSIVE LStrip(_)
LStrip(s) == IF s # <<>> /\ IsSpace(Head(s)) THEN LStrip(Tail(s)) ELSE s

RECURSIVE RStrip(_)
RStrip(s) ==
    IF s # <<>> /\ IsSpace(s[Len(s)]) THEN RStrip(SubSeq(s, 1, Len(s) - 1)) ELSE s

Strip(s) == RStrip(LStrip(s))

\* The default of the parameter chars_to_remove: "-_'".
chars_to_remove == <<"-", "_", "'">>

----------------------------------------------------------------------------
(* normalize_string                                                        *)

\* for char in chars_to_remove: if char in name: name = name.replace(char, "")
RECURSIVE RemoveChars(_, _)
RemoveChars(name, chars) ==
    IF chars = <<>> THEN name
    ELSE RemoveChars(IF Contains(name, Head(chars))
                         THEN Replace(name, Head(chars)) ELSE name,
                     Tail(chars))

normalize_string(name) ==
    LET stripped == IF Contains(name, " ") THEN Strip(name) ELSE name
    IN  RemoveChars(Upper(stripped), chars_to_remove)

----------------------------------------------------------------------------
(* expand_strings                                                          *)

\* for char in chars_to_remove: for name in list(result_set):
\*     result_set.add(name.replace(char, ""))
RECURSIVE ExpandRemovals(_, _)
ExpandRemovals(result_set, chars) ==
    IF chars = <<>> THEN result_set
    ELSE ExpandRemovals(
             result_set \cup {Replace(name, Head(chars)) : name \in result_set},
             Tail(chars))

ExpandUpper(result_set) == result_set \cup {Upper(name) : name \in result_set}

ExpandLower(result_set) == result_set \cup {Lower(name) : name \in result_set}

\* A version that forgets the lowercase pass.
expand_strings_no_lower(names) ==
    ExpandUpper(ExpandRemovals(names, chars_to_remove))

\* expand_strings(*names): names is the set of the arguments.
expand_strings(names) ==
    ExpandLower(ExpandUpper(ExpandRemovals(names, chars_to_remove)))

----------------------------------------------------------------------------
(* Python dict and the objects stored in one                               *)

\* A Python object: its type, its contents, and (for the objects
\* default_value_fn creates, numbered from 1) its identity.
PyStr(s) == [tag |-> "str", val |-> s, id |-> 0]

PyList(xs) == [tag |-> "list", val |-> xs, id |-> 0]

PySet(i, elems) == [tag |-> "set", val |-> elems, id |-> i]

None == [tag |-> "None", val |-> <<>>, id |-> 0]

\* hash(x) raises TypeError for a list and for a set.
Hashable(x) == x.tag \in {"str", "None"}

\* isinstance(v, (list, tuple, set))
IsCollection(v) == v.tag \in {"list", "set"}

DictHas(d, k) == \E i \in 1..Len(d) : d[i].k = k

DictGet(d, k) == d[CHOOSE i \in 1..Len(d) : d[i].k = k].v

\* d[k] = v: an existing key keeps its position, a new one goes last.
DictSet(d, k, v) ==
    IF DictHas(d, k)
        THEN [i \in 1..Len(d) |-> IF d[i].k = k THEN [k |-> k, v |-> v] ELSE d[i]]
        ELSE Append(d, [k |-> k, v |-> v])

DictKeys(d) == [i \in 1..Len(d) |-> d[i].k]

DictValues(d) == [i \in 1..Len(d) |-> d[i].v]

----------------------------------------------------------------------------
(* apply_string_expansion_to_dict_keys                                     *)

\* A version that keeps the value already stored under an expanded key.
ExpandEntryKeepFirst(result, key, value) ==
    LET expanded == expand_strings({key})
    IN  [m \in DOMAIN result \cup expanded |->
            IF m \in DOMAIN result THEN result[m] ELSE value]

\* for expanded_key in expand_strings(key): result[expanded_key] = value
\* The result is a mapping (a function): the order in which one key's
\* expansions are inserted is the iteration order of a set, and every one
\* of them is given the same value.
ExpandEntry(result, key, value) ==
    LET expanded == expand_strings({key})
    IN  [m \in DOMAIN result \cup expanded |->
            IF m \in expanded THEN value ELSE result[m]]

RECURSIVE ExpandEntries(_, _)
ExpandEntries(result, d) ==
    IF d = <<>> THEN result
    ELSE ExpandEntries(ExpandEntry(result, Head(d).k, Head(d).v), Tail(d))

apply_string_expansion_to_dict_keys(d) == ExpandEntries(<<>>, d)

----------------------------------------------------------------------------
(* class NormalizingDictionary                                             *)
(*                                                                         *)
(* The object is the record of the attributes __init__ sets.  A method is  *)
(* an operator of the object, its arguments and n, the number of objects   *)
(* default_value_fn has created so far; it yields the object afterwards,   *)
(* the outcome (status "ok" and the value returned, or the exception       *)
(* raised) and the new count.                                              *)

\* __init__ with no pairs; pairs are applied by __setitem__ afterwards.
\* original_to_normalized_key_dict is a dict, never iterated: a function.
\* normalized_to_original_keys_dict is a defaultdict(set): a function to sets.
NewDict(default_value_fn) ==
    [store |-> <<>>,
     original_to_normalized_key_dict |-> <<>>,
     normalized_to_original_keys_dict |-> <<>>,
     normalize_fn |-> "normalize_string",
     default_value_fn |-> default_value_fn]

\* self.normalize_fn(k): the only normalize_fn constructed here is the default.
normalize_fn(d, k) == normalize_string(k)

Outcome(d, status, value, n) ==
    [self |-> d, status |-> status, value |-> value, allocated |-> n]

\* defaultdict(set)[k] for reading: a missing key reads as an empty set.
DefaultDictGet(dd, k) == IF k \in DOMAIN dd THEN dd[k] ELSE {}

\* A version that stores under the key as spelled.
setitem_unnormalized(d, k, v, n) ==
    Outcome([d EXCEPT
                 !.original_to_normalized_key_dict = (k :> k) @@ @,
                 !.normalized_to_original_keys_dict =
                     (k :> (DefaultDictGet(@, k) \cup {k})) @@ @,
                 !.store = DictSet(@, k, v)],
            "ok", None, n)

\* A version that replaces the set of original keys instead of adding to it.
setitem_forgets_originals(d, k, v, n) ==
    LET k_normalized == normalize_fn(d, k)
    IN  Outcome([d EXCEPT
                     !.original_to_normalized_key_dict = (k :> k_normalized) @@ @,
                     !.normalized_to_original_keys_dict = (k_normalized :> {k}) @@ @,
                     !.store = DictSet(@, k_normalized, v)],
                "ok", None, n)

\* __setitem__(self, k, v)
setitem(d, k, v, n) ==
    LET k_normalized == normalize_fn(d, k)
    IN  Outcome([d EXCEPT
                     !.original_to_normalized_key_dict = (k :> k_normalized) @@ @,
                     !.normalized_to_original_keys_dict =
                         (k_normalized :> (DefaultDictGet(@, k_normalized) \cup {k})) @@ @,
                     !.store = DictSet(@, k_normalized, v)],
                "ok", None, n)

\* self.default_value_fn(): the factory is `set`; the new object is number n + 1.
CallDefault(n) == PySet(n + 1, {})

\* A version that looks the key up as spelled.
getitem_unnormalized(d, k, n) ==
    IF ~DictHas(d.store, k)
        THEN IF d.default_value_fn # "None"
                 THEN Outcome([d EXCEPT !.store = DictSet(@, k, CallDefault(n))],
                              "ok", CallDefault(n), n + 1)
                 ELSE Outcome(d, "KeyError", PyStr(k), n)
        ELSE Outcome(d, "ok", DictGet(d.store, k), n)

\* A version that returns the default without storing it.
getitem_default_not_stored(d, k, n) ==
    LET k_normalized == normalize_fn(d, k)
    IN  IF ~DictHas(d.store, k_normalized)
            THEN IF d.default_value_fn # "None"
                     THEN Outcome(d, "ok", CallDefault(n), n + 1)
                     ELSE Outcome(d, "KeyError", PyStr(k), n)
            ELSE Outcome(d, "ok", DictGet(d.store, k_normalized), n)

\* __getitem__(self, k)
getitem(d, k, n) ==
    LET k_normalized == normalize_fn(d, k)
    IN  IF ~DictHas(d.store, k_normalized)
            THEN IF d.default_value_fn # "None"
                     THEN LET created == [d EXCEPT
                                  !.store = DictSet(@, k_normalized, CallDefault(n))]
                          IN  Outcome(created, "ok",
                                      DictGet(created.store, k_normalized), n + 1)
                     ELSE Outcome(d, "KeyError", PyStr(k), n)
            ELSE Outcome(d, "ok", DictGet(d.store, k_normalized), n)

\* A version that goes through __getitem__ and swallows the KeyError.
get_via_getitem(d, k, v, n) ==
    LET r == getitem(d, k, n)
    IN  IF r.status = "ok" THEN r ELSE Outcome(d, "ok", v, n)

\* get(self, k, v=None)
get(d, k, v, n) ==
    LET k_normalized == normalize_fn(d, k)
    IN  Outcome(d, "ok",
                IF DictHas(d.store, k_normalized)
                    THEN DictGet(d.store, k_normalized) ELSE v,
                n)

\* keys(self): reads self.original_to_normalized_keys_dict, an attribute
\* the object has only if __init__ set it.
keys(d, n) ==
    IF "original_to_normalized_keys_dict" \in DOMAIN d
        THEN Outcome(d, "ok", DOMAIN d.original_to_normalized_keys_dict, n)
        ELSE Outcome(d, "AttributeError", None, n)

\* normalized_keys(self)
normalized_keys(d) == DictKeys(d.store)

\* keys_aligned_with_values(self): reading the defaultdict under a key it
\* lacks inserts an empty set there.
keys_aligned_with_values(d, n) ==
    LET nks == normalized_keys(d)
        dd  == d.normalized_to_original_keys_dict
        touched == [nk \in DOMAIN dd \cup {nks[i] : i \in 1..Len(nks)} |->
                       DefaultDictGet(dd, nk)]
    IN  Outcome([d EXCEPT !.normalized_to_original_keys_dict = touched],
                "ok",
                [i \in 1..Len(nks) |-> PySet(0, touched[nks[i]])],
                n)

\* values(self)
values(d) == DictValues(d.store)

\* zip(a, b): as long as the shorter of the two.
Zip(a, b) ==
    [i \in 1..(IF Len(a) < Len(b) THEN Len(a) ELSE Len(b)) |-> <<a[i], b[i]>>]

\* items(self)
items(d, n) ==
    LET kav == keys_aligned_with_values(d, n)
    IN  Outcome(kav.self, "ok", Zip(kav.value, values(kav.self)), n)

\* Iterating a Python set: some order of its elements.  The sets iterated
\* here are the ones default_value_fn made, to which nothing has been added.
RECURSIVE SetAsSeq(_)
SetAsSeq(S) ==
    IF S = {} THEN <<>>
    ELSE LET x == CHOOSE y \in S : TRUE IN <<x>> \o SetAsSeq(S \ {x})

\* values = v if isinstance(v, (list, tuple, set)) else [v]
ValuesOf(v) ==
    IF IsCollection(v)
        THEN (IF v.tag = "set" THEN SetAsSeq(v.val) ELSE v.val)
        ELSE <<v>>

\* The (vi, k) pairs the two nested loops of invert visit, in order.
RECURSIVE InvertPairs(_)
InvertPairs(its) ==
    IF its = <<>> THEN <<>>
    ELSE LET k == Head(its)[1]
             vals == ValuesOf(Head(its)[2])
         IN  [i \in 1..Len(vals) |-> <<vals[i], k>>] \o InvertPairs(Tail(its))

\* result[vi].add(k) for each pair: __getitem__ normalizes vi (a str) and
\* creates the set; set.add raises TypeError for an unhashable k.
RECURSIVE InvertLoop(_, _, _)
InvertLoop(result, pairs, n) ==
    IF pairs = <<>> THEN Outcome(result, "ok", None, n)
    ELSE LET vi == Head(pairs)[1]
             k  == Head(pairs)[2]
         IN  IF vi.tag # "str" THEN Outcome(result, "TypeError", None, n)
             ELSE LET got == getitem(result, vi.val, n)
                  IN  IF got.status # "ok" THEN got
                      ELSE IF ~Hashable(k)
                          THEN Outcome(got.self, "TypeError", None, got.allocated)
                      ELSE InvertLoop(
                               [got.self EXCEPT !.store =
                                   DictSet(@, normalize_fn(got.self, vi.val),
                                           PySet(got.value.id, got.value.val \cup {k}))],
                               Tail(pairs), got.allocated)

\* invert(self): an exception leaves no result; what items() did to self stays.
invert(d, n) ==
    LET its == items(d, n)
        out == InvertLoop(NewDict("set"), InvertPairs(its.value), n)
    IN  IF out.status = "ok"
            THEN Outcome(its.self, "ok", out.self, out.allocated)
            ELSE Outcome(its.self, out.status, None, out.allocated)

----------------------------------------------------------------------------
(* The calls made on one NormalizingDictionary                             *)

\* Original keys: "K-k" and "kk" share the normalized form "KK"; "k" has "K".
OriginalKeys == {<<"K", "-", "k">>, <<"k", "k">>, <<"k">>}

\* Values assigned: a str, a list of str, an empty list.
AssignedValues ==
    {PyStr(<<"k">>), PyList(<<PyStr(<<"k">>), PyStr(<<"K", "_">>)>>), PyList(<<>>)}

\* Fallbacks handed to get: the default None, and a str.
Fallbacks == {None, PyStr(<<"-">>)}

Idle ==
    /\ input = <<>>
    /\ out1 = <<>>
    /\ out2 = <<>>
    /\ pc = "idle"

Fresh(default_value_fn) ==
    /\ self = NewDict(default_value_fn)
    /\ ret = [status |-> "ok", value |-> None]
    /\ lastOp = [op |-> "init", k |-> <<>>, v |-> None]
    /\ nops = 0
    /\ allocated = 0
    /\ written = <<>>

\* NormalizingDictionary() or NormalizingDictionary(default_value_fn=set)
Init ==
    /\ \E default_value_fn \in {"None", "set"} : Fresh(default_value_fn)
    /\ Idle

Called(op, k, v, r) ==
    /\ nops < MaxOps
    /\ self' = r.self
    /\ ret' = [status |-> r.status, value |-> r.value]
    /\ allocated' = r.allocated
    /\ lastOp' = [op |-> op, k |-> k, v |-> v]
    /\ nops' = nops + 1
    /\ UNCHANGED fvars

\* d[k] = v, also each pair given to the constructor
Assign ==
    \E k \in OriginalKeys, v \in AssignedValues :
        /\ Called("Assign", k, v, setitem(self, k, v, allocated))
        /\ written' = Append(written, <<k, v>>)

\* d[k]
Lookup ==
    \E k \in OriginalKeys :
        /\ Called("Lookup", k, None, getitem(self, k, allocated))
        /\ UNCHANGED written

\* d.get(k, v)
Get ==
    \E k \in OriginalKeys, v \in Fallbacks :
        /\ Called("Get", k, v, get(self, k, v, allocated))
        /\ UNCHANGED written

\* d.keys()
Keys ==
    /\ Called("Keys", <<>>, None, keys(self, allocated))
    /\ UNCHANGED written

\* list(d.items())
Items ==
    /\ Called("Items", <<>>, None, items(self, allocated))
    /\ UNCHANGED written

\* d.invert()
Invert ==
    /\ Called("Invert", <<>>, None, invert(self, allocated))
    /\ UNCHANGED written

Next == Assign \/ Lookup \/ Get \/ Keys \/ Items \/ Invert

Spec == Init /\ [][Next]_vars

----------------------------------------------------------------------------
(* normalize_string applied to a string, then to its own result            *)

NormalizeInit ==
    /\ Fresh("None")
    /\ input \in Strings
    /\ out1 = <<>>
    /\ out2 = <<>>
    /\ pc = "start"

Normalize ==
    /\ pc = "start"
    /\ out1' = normalize_string(input)
    /\ pc' = "normalized"
    /\ UNCHANGED <<input, out2>>
    /\ UNCHANGED cvars

NormalizeAgain ==
    /\ pc = "normalized"
    /\ out2' = normalize_string(out1)
    /\ pc' = "renormalized"
    /\ UNCHANGED <<input, out1>>
    /\ UNCHANGED cvars

NormalizeNext == Normalize \/ NormalizeAgain

SpecNormalize == NormalizeInit /\ [][NormalizeNext]_vars

----------------------------------------------------------------------------
(* expand_strings applied to one string                                    *)

ExpandInit ==
    /\ Fresh("None")
    /\ input \in Strings
    /\ out1 = {}
    /\ out2 = <<>>
    /\ pc = "start"

Expand ==
    /\ pc = "start"
    /\ out1' = expand_strings({input})
    /\ pc' = "expanded"
    /\ UNCHANGED <<input, out2>>
    /\ UNCHANGED cvars

ExpandNext == Expand

SpecExpand == ExpandInit /\ [][ExpandNext]_vars

----------------------------------------------------------------------------
(* apply_string_expansion_to_dict_keys applied to one mapping              *)

\* Keys of the input mappings: "k-K", "kK", "KK", "k_k", and the Kelvin sign.
MappingKeys ==
    {<<"k", "-", "K">>, <<"k", "K">>, <<"K", "K">>, <<"k", "_", "k">>, <<"U+212A">>}

MappingValues == {"v1", "v2"}

\* The dicts of up to MaxDictSize entries: the keys of a dict are distinct.
Mappings ==
    UNION {{d \in [1..n -> [k : MappingKeys, v : MappingValues]] :
               \A i, j \in 1..n : i # j => d[i].k # d[j].k} : n \in 0..MaxDictSize}

ApplyInit ==
    /\ Fresh("None")
    /\ input \in Mappings
    /\ out1 = <<>>
    /\ out2 = <<>>
    /\ pc = "start"

Apply ==
    /\ pc = "start"
    /\ out1' = apply_string_expansion_to_dict_keys(input)
    /\ pc' = "applied"
    /\ UNCHANGED <<input, out2>>
    /\ UNCHANGED cvars

ApplyNext == Apply

SpecApply == ApplyInit /\ [][ApplyNext]_vars

----------------------------------------------------------------------------
(* Properties                                                              *)

\* The original keys ever passed to __setitem__.
AssignedKeys == {written[i][1] : i \in 1..Len(written)}

\* The positions in the history of the writes to the normalized form of k.
WritesTo(k) ==
    {i \in 1..Len(written) : normalize_string(written[i][1]) = normalize_string(k)}

Last(S) == CHOOSE i \in S : \A j \in S : j <= i

\* C1: after invert() the call has completed and returned a container with
\* the same normalize_fn and default factory set in which, for every item
\* (key-set, value) of the source, every original key of the key-set is a
\* member of the set stored under each element of value (a collection) or
\* under value itself (a scalar).
InvertRegistersEveryKey ==
    lastOp.op = "Invert" =>
        /\ ret.status = "ok"
        /\ ret.value.normalize_fn = self.normalize_fn
        /\ ret.value.default_value_fn = "set"
        /\ \A i \in 1..Len(self.store) :
               LET vals == ValuesOf(self.store[i].v)
               IN  \A k \in AssignedKeys :
                       normalize_string(k) = self.store[i].k =>
                           \A j \in 1..Len(vals) :
                               /\ DictHas(ret.value.store, normalize_string(vals[j].val))
                               /\ k \in DictGet(ret.value.store,
                                                normalize_string(vals[j].val)).val

\* C2: keys() completes without error and exposes exactly the original keys
\* that have been passed to __setitem__.
KeysExposesAssignedKeys ==
    lastOp.op = "Keys" =>
        /\ ret.status = "ok"
        /\ ret.value = AssignedKeys

\* C3: normalize_string is idempotent: normalizing its result again gives
\* the same string.
NormalizeIdempotent == pc = "renormalized" => out2 = out1

\* C4: a lookup of a key whose normalized form has been assigned returns the
\* value of the most recent assignment to that normalized form, whatever the
\* spellings used; and the store holds exactly one entry per normalized form
\* assigned.
LastWriteWins ==
    /\ (lastOp.op = "Lookup" /\ WritesTo(lastOp.k) # {}) =>
           /\ ret.status = "ok"
           /\ ret.value = written[Last(WritesTo(lastOp.k))][2]
    /\ \A k \in AssignedKeys :
           Cardinality({i \in 1..Len(self.store) :
                            self.store[i].k = normalize_string(k)}) = 1

LastWriteWinsWitness ==
    /\ lastOp.op = "Lookup"
    /\ \E i, j \in WritesTo(lastOp.k) :
           /\ i < j
           /\ j = Last(WritesTo(lastOp.k))
           /\ written[i][1] # written[j][1]
           /\ written[i][2] # written[j][2]
           /\ written[j][1] # lastOp.k
           /\ ret.value = written[j][2]

\* C5: without a default-value factory, a lookup fails with KeyError exactly
\* when the normalized key is absent from the store, which is exactly when no
\* earlier assignment used a key of the same normalized form; otherwise it
\* returns the stored value.
KeyErrorIffAbsent ==
    (lastOp.op = "Lookup" /\ self.default_value_fn = "None") =>
        /\ ret.status \in {"ok", "KeyError"}
        /\ ret.status = "KeyError" <=> ~DictHas(self.store, normalize_string(lastOp.k))
        /\ ret.status = "KeyError" <=> WritesTo(lastOp.k) = {}
        /\ ret.status = "ok" =>
               ret.value = DictGet(self.store, normalize_string(lastOp.k))

KeyErrorIffAbsentWitness ==
    /\ lastOp.op = "Lookup"
    /\ self.default_value_fn = "None"
    /\ ret.status = "KeyError"
    /\ written # <<>>

\* C6: with a default-value factory, a lookup of an absent normalized key
\* calls the factory once, stores the new empty object under the normalized
\* key and returns it; a lookup of a present normalized key returns the
\* stored object, calls no factory and changes nothing.
DefaultFactoryLazy ==
    [][(lastOp'.op = "Lookup" /\ self.default_value_fn = "set") =>
          LET kn == normalize_string(lastOp'.k)
          IN  IF ~DictHas(self.store, kn)
                  THEN /\ allocated' = allocated + 1
                       /\ ret'.status = "ok"
                       /\ ret'.value.tag = "set"
                       /\ ret'.value.val = {}
                       /\ \A i \in 1..Len(self.store) :
                              self.store[i].v.id # ret'.value.id
                       /\ self'.store = Append(self.store, [k |-> kn, v |-> ret'.value])
                  ELSE /\ allocated' = allocated
                       /\ ret'.status = "ok"
                       /\ ret'.value = DictGet(self.store, kn)
                       /\ self' = self]_vars

\* Two objects have been created, and the lookup returned the older one.
DefaultFactoryLazyWitness ==
    /\ lastOp.op = "Lookup"
    /\ self.default_value_fn = "set"
    /\ allocated = 2
    /\ ret.value = PySet(1, {})

\* C7: get never fails and never changes the container: it returns the
\* stored value when the normalized key is in the store and the fallback
\* otherwise, calls no factory, and leaves the store and both auxiliary
\* mappings as they were.
GetIsPure ==
    [][lastOp'.op = "Get" =>
          LET kn == normalize_string(lastOp'.k)
          IN  /\ ret'.status = "ok"
              /\ ret'.value = IF DictHas(self.store, kn)
                                  THEN DictGet(self.store, kn) ELSE lastOp'.v
              /\ allocated' = allocated
              /\ self' = self]_vars

GetIsPureWitness ==
    /\ lastOp.op = "Get"
    /\ self.default_value_fn = "set"
    /\ ~DictHas(self.store, normalize_string(lastOp.k))
    /\ self.store # <<>>
    /\ ret.value = lastOp.v

\* The entries of the input mapping whose key's Expansion Set contains m.
Sources(m) == {i \in 1..Len(input) : m \in expand_strings({input[i].k})}

\* C8, as stated: under every member of the Expansion Set of every original
\* key, the result holds that key's value.
ExpandedKeysHoldOwnValue ==
    pc = "applied" =>
        \A i \in 1..Len(input) :
            \A m \in expand_strings({input[i].k}) :
                m \in DOMAIN out1 /\ out1[m] = input[i].v

\* C8, amended: the keys of the result are the members of the Expansion Sets
\* of the original keys, and under each the result holds the value of the
\* last original key, in iteration order, whose Expansion Set contains it.
ExpandedKeysHoldLastValue ==
    pc = "applied" =>
        /\ DOMAIN out1 = UNION {expand_strings({input[i].k}) : i \in 1..Len(input)}
        /\ \A m \in DOMAIN out1 : out1[m] = input[Last(Sources(m))].v

ExpandedKeysCollideWitness ==
    /\ pc = "applied"
    /\ \E m \in DOMAIN out1 :
           \E i, j \in Sources(m) :
               i < j /\ input[i].v # input[j].v /\ out1[m] = input[j].v

CaseClosed(S) == \A m \in S : Upper(m) \in S /\ Lower(m) \in S

\* C9, as stated: the Expansion Set of every string holds the uppercase and
\* the lowercase form of each of its members, and the string itself.
ExpandCaseClosed ==
    pc = "expanded" =>
        /\ {input, Upper(input), Lower(input)} \subseteq out1
        /\ CaseClosed(out1)

IsAscii(s) == \A i \in 1..Len(s) : s[i] # "U+212A"

\* C9, amended: the Expansion Set of every string holds the string, its
\* uppercase and its lowercase form; for an ASCII string it also holds the
\* uppercase and the lowercase form of each of its members.
ExpandCaseClosedAscii ==
    pc = "expanded" =>
        /\ {input, Upper(input), Lower(input)} \subseteq out1
        /\ IsAscii(input) => CaseClosed(out1)

ExpandCaseClosedAsciiWitness ==
    /\ pc = "expanded"
    /\ IsAscii(input)
    /\ Contains(input, "k")
    /\ Contains(input, "K")
    /\ Contains(input, "-")
    /\ Cardinality(out1) = 6

====
